---- MODULE Spec2Model ----
(***************************************************************************)
(* Model of the processor service (src/services/processor): main() and the *)
(* consumer callback process_job of main.py, the SchemaValidator of        *)
(* schema_validator.py, the broker queue and relational store that         *)
(* process_job talks to, and the JobStateMachine of tests/test_main.py.    *)
(*                                                                         *)
(* Spec runs one processor with every contract document deployed;          *)
(* SpecConfig runs it with any subset of the documents deployed and any    *)
(* VERSION file; SpecConcurrent runs two processors against one broker and *)
(* one store; SpecSM exercises one JobStateMachine; SpecValidator calls    *)
(* validate_event_envelope and validate_job on their own.                  *)
(*                                                                         *)
(* main() and process_job are modelled statement by statement: every call  *)
(* on the channel, the store connection and the metrics is one step, and a *)
(* call that can raise (psycopg2 and pika calls) either returns or raises. *)
(* A raising call has no effect on the broker or the store.                *)
(***************************************************************************)
EXTENDS Integers, Sequences, FiniteSets, TLC

\* ------------------------------------------------------------------ bounds
\* Number of messages in the inbound queue when the consumer starts.
MaxMsgs == 2
\* Total number of deliveries (first deliveries and redeliveries) handed out.
MaxDeliveries == 3
\* Number of calls made on the JobStateMachine (constructor calls included).
MaxSmCalls == 4
\* Per process: number of store connections that earlier iterations of the
\* table loop of main() left open and that conn no longer refers to (the one
\* conn refers to comes on top).
MaxInitLeaks == 1

\* --------------------------------------------------------------- constants
QUEUE_NAME == "jobs.created"
OUT_QUEUE == "jobs.completed"
DLQ_NAME == "jobs.failed.validation"
SERVICE_VERSION == "0.1.0"

\* Status literals written by the two SQL statements of process_job.
UpsertStatus == "EXECUTING"
FinalStatus == "COMPLETED"

\* The four legal job statuses.
VALID_STATUSES == {"PENDING", "PROCESSING", "COMPLETED", "FAILED"}

\* The transition table with PENDING -> COMPLETED allowed (PROCESSING skipped).
TransitionsSkipProcessing ==
    [s \in VALID_STATUSES |->
        CASE s = "PENDING" -> {"PROCESSING", "COMPLETED"}
          [] s = "PROCESSING" -> {"COMPLETED", "FAILED"}
          [] OTHER -> {}]

\* The transition table with COMPLETED -> PROCESSING allowed (a job reopened).
TransitionsReopen ==
    [s \in VALID_STATUSES |->
        CASE s = "PENDING" -> {"PROCESSING"}
          [] s = "PROCESSING" -> {"COMPLETED", "FAILED"}
          [] s = "COMPLETED" -> {"PROCESSING"}
          [] OTHER -> {}]

\* The allowed transitions of a job status; COMPLETED and FAILED are terminal.
VALID_TRANSITIONS ==
    [s \in VALID_STATUSES |->
        CASE s = "PENDING" -> {"PROCESSING"}
          [] s = "PROCESSING" -> {"COMPLETED", "FAILED"}
          [] s = "COMPLETED" -> {}
          [] s = "FAILED" -> {}]

\* The consumer instances; Spec runs consumer 1 alone.
Consumers == {1, 2}

\* ------------------------------------------------------------ JSON values
\* A JSON object is a record; a key the object lacks is a field the record lacks.
EmptyObj == [x \in {} |-> x]

Has(obj, key) == key \in DOMAIN obj

Producer(service) == [service |-> service, instanceId |-> "gw-1", version |-> "0.1.0"]

\* A job object with every field the job contract requires, and a payload.
JobWithPayload(id, payload) ==
    [id |-> id, type |-> "compute", status |-> "PENDING",
     createdAt |-> "2025-01-01T00:00:00Z", payload |-> payload]

\* A job object without the optional payload sub-field.
JobNoPayload(id) ==
    [id |-> id, type |-> "compute", status |-> "PENDING",
     createdAt |-> "2025-01-01T00:00:00Z"]

Envelope(eventType, eventId, idempotencyKey, job) ==
    [contractVersion |-> "1.0.0", eventType |-> eventType, eventId |-> eventId,
     occurredAt |-> "2025-01-01T00:00:00Z", correlationId |-> "corr-abc",
     idempotencyKey |-> idempotencyKey, producer |-> Producer("gateway"),
     payload |-> job]

\* A message body: bytes that decode to a JSON value, bytes that are no JSON
\* text, or bytes that are no UTF-8.
JsonBody(value) == [raw |-> "json", value |-> value]
Obj(o) == [isdict |-> TRUE, obj |-> o]

\* the body of test_process_job_success_flow
BodyValid == JsonBody(Obj(Envelope("job.created", "evt-1", "idem-1",
                                   JobWithPayload("j1", [data |-> "test"]))))
\* a second event for the same job, with an explicitly empty payload
BodyValid2 == JsonBody(Obj(Envelope("job.created", "evt-2", "idem-2",
                                    JobWithPayload("j1", EmptyObj))))
\* a valid job without the payload sub-field (test_db_exception_requeues_message)
BodyNoPayload == JsonBody(Obj(Envelope("job.created", "evt-3", "idem-3", JobNoPayload("j2"))))
\* the body of test_validation_failure_sends_to_dlq
BodyMissingFields == JsonBody(Obj([eventType |-> "job.created",
                                   correlationId |-> "corr-invalid"]))
\* the body of test_validate_message_with_invalid_payload
BodyInvalidJob == JsonBody(Obj(Envelope("job.created", "evt-4", "idem-4", [type |-> "compute"])))
\* an envelope outside the job. namespace, whose payload is no job
BodyNonJob == JsonBody(Obj(Envelope("user.created", "evt-5", "idem-5", EmptyObj)))
\* b'[]': JSON, but no object
BodyArray == JsonBody([isdict |-> FALSE])
\* b'not valid json {' (test_invalid_json_triggers_nack)
BodyMalformed == [raw |-> "malformed"]
\* b'\x80abc': not UTF-8
BodyBadUtf8 == [raw |-> "badutf8"]

Corpus == {BodyValid, BodyValid2, BodyNoPayload, BodyMissingFields, BodyInvalidJob,
           BodyNonJob, BodyArray, BodyMalformed, BodyBadUtf8}

\* ------------------------------------------------------------------ state
VARIABLES
    inbound,        \* the jobs.created queue: <<[body, redelivered], ...>>, head first
    published,      \* what the processor has published, per routing key
    deliveries,     \* number of deliveries handed to consumers so far
    store,          \* the committed rows of table jobs, keyed by id
    openConns,      \* store connections opened and not closed
    counters,       \* the four Prometheus counters
    uuids,          \* number of uuid4() values drawn so far
    pc,             \* per consumer: the statement of process_job it is at
    delivery,       \* per consumer: the delivery being (or last) handled
    correlation_id, \* per consumer: local variable correlation_id
    conn,           \* per consumer: state of the local psycopg2 connection
    tx,             \* per consumer: statements executed and not yet committed
    calls,          \* per consumer: the calls made for the current delivery
    schema_cache,   \* per consumer: names loaded by the SchemaValidator singleton
    validators,     \* per consumer: names with a compiled validator (_validators)
    reads,          \* per consumer: how often each schema file has been read
    validated,      \* per consumer: the schemas validate_message asked for, last call
    unacked,        \* per consumer: deliveries pushed by the broker and not resolved
    schemas_dir,    \* the contract documents present in the schemas directory
    table,          \* whether table jobs exists in the store
    declared,       \* the durable queues declared on the broker
    qos,            \* per consumer: the channel's prefetch count (0: no limit)
    version_file,   \* the VERSION file next to main.py: whether it exists, its text
    main_conn,      \* per consumer: state of the connection the local conn of main() is bound to
    main_stale,     \* per consumer: connections of earlier iterations of main()'s loop,
                    \* no longer bound to conn and never closed
    sm_status,      \* JobStateMachine.status of the machine under test
    sm_events,      \* JobStateMachine.processed_event_ids of that machine
    sm_log,         \* the calls made on the JobStateMachine class, with results
    v_obj,          \* the object a validator function is called with directly
    v_out           \* that call: the function called and what it returned

\* The state of the JobStateMachine; process_job never touches it.
auxVars == <<sm_status, sm_events, sm_log>>

\* A direct call of validate_event_envelope or validate_job, as the unit tests
\* of the validator make it; process_job never touches it.
valVars == <<v_obj, v_out>>

\* What main() and the deployment set up; process_job never touches it.
setupVars == <<schemas_dir, table, declared, qos, version_file, main_conn, main_stale>>

vars == <<inbound, published, deliveries, store, openConns, counters, uuids,
          pc, delivery, correlation_id, conn, tx, calls, schema_cache, validators, reads, validated,
          unacked, schemas_dir, table, declared, qos, version_file, main_conn,
          main_stale, sm_status, sm_events, sm_log, v_obj, v_out>>

\* ------------------------------------------------------- pure functions
\* json.loads(body): the decoded value, or the exception raised.
json_loads(body) ==
    CASE body.raw = "json" -> [exc |-> "none", value |-> body.value]
      [] body.raw = "malformed" -> [exc |-> "JSONDecodeError"]
      [] body.raw = "badutf8" -> [exc |-> "UnicodeDecodeError"]

\* json.dumps of a job payload, on the payloads of the corpus.
json_dumps(payload) ==
    IF DOMAIN payload = {} THEN "{}" ELSE "{\"data\": \"test\"}"

\* event.get('correlationId', 'unknown'); raises unless event is a dict.
get_correlation_id(value) ==
    IF ~value.isdict THEN [exc |-> "AttributeError"]
    ELSE [exc |-> "none",
          value |-> IF Has(value.obj, "correlationId")
                    THEN value.obj.correlationId ELSE "unknown"]

\* str.startswith('job.') on the event types of the corpus.
StartsWithJob(eventType) == eventType \in {"job.created", "job.completed", "job.failed"}

\* The contract documents: the fields each schema requires, in schema order.
SchemaFiles == {"event-envelope", "job"}
EnvelopeRequired == <<"contractVersion", "eventType", "eventId", "occurredAt",
                      "producer", "correlationId", "idempotencyKey", "payload">>
JobRequired == <<"id", "type", "status", "createdAt">>

\* validator.iter_errors(obj): the required fields obj lacks, in schema order.
RECURSIVE Missing(_, _)
Missing(required, obj) ==
    IF required = <<>> THEN <<>>
    ELSE (IF Has(obj, Head(required)) THEN <<>> ELSE <<Head(required)>>)
         \o Missing(Tail(required), obj)

\* validator.iter_errors(obj): one error per required field obj lacks, in
\* schema order, at the document root.
iter_errors(required, obj) ==
    [i \in DOMAIN Missing(required, obj) |->
        [json_path |-> "$",
         message |-> "'" \o Missing(required, obj)[i] \o "' is a required property"]]

\* errors without the [:3] slice.
AllErrors(errors) == errors

\* errors[:3]
FirstThree(errors) == SubSeq(errors, 1, IF Len(errors) < 3 THEN Len(errors) ELSE 3)

\* f"{e.json_path}: {e.message}"
Render(e) == e.json_path \o ": " \o e.message

\* sep.join(parts)
RECURSIVE Join(_, _)
Join(parts, sep) ==
    IF parts = <<>> THEN ""
    ELSE IF Len(parts) = 1 THEN parts[1]
    ELSE parts[1] \o sep \o Join(Tail(parts), sep)

\* str(e) of the FileNotFoundError raised by _load_schema
SchemaNotFound(name) == "Schema not found: schemas/" \o name \o ".json"

\* The second element of the tuple a successful validation returns.
None == "None"

\* validate_event_envelope / validate_job: (is_valid, error_message or None).
\* A missing schema file is reported as a validation failure.
ValidateAgainst(name, required, obj) ==
    IF name \notin schemas_dir
    THEN [ok |-> FALSE, error |-> SchemaNotFound(name)]
    ELSE LET errors == iter_errors(required, obj)
         IN IF errors # <<>>
            THEN [ok |-> FALSE,
                  error |-> Join([i \in DOMAIN FirstThree(errors) |->
                                     Render(FirstThree(errors)[i])], "; ")]
            ELSE [ok |-> TRUE, error |-> None]

validate_event_envelope(event) == ValidateAgainst("event-envelope", EnvelopeRequired, event)
validate_job(job) == ValidateAgainst("job", JobRequired, job)

\* validate_message validating the payload of every event as a job, whatever
\* its eventType.
validate_message_any_type(event) ==
    LET env == validate_event_envelope(event)
    IN IF ~env.ok
       THEN [ok |-> FALSE, stage |-> "Envelope validation failed", error |-> env.error]
       ELSE LET job == validate_job(IF Has(event, "payload") THEN event.payload
                                    ELSE EmptyObj)
            IN IF ~job.ok
               THEN [ok |-> FALSE, stage |-> "Payload validation failed",
                     error |-> job.error]
               ELSE [ok |-> TRUE, stage |-> "", error |-> None]

\* validate_message: envelope first, then the payload of a job.* event.
validate_message(event) ==
    LET env == validate_event_envelope(event)
    IN IF ~env.ok
       THEN [ok |-> FALSE, stage |-> "Envelope validation failed", error |-> env.error]
       ELSE LET event_type == IF Has(event, "eventType") THEN event.eventType ELSE ""
                payload == IF Has(event, "payload") THEN event.payload ELSE EmptyObj
                job == validate_job(payload)
            IN IF StartsWithJob(event_type) /\ ~job.ok
               THEN [ok |-> FALSE, stage |-> "Payload validation failed",
                     error |-> job.error]
               ELSE [ok |-> TRUE, stage |-> "", error |-> None]

\* One recorded call: the operation, its distinguishing argument, and whether
\* it returned (TRUE) or raised (FALSE).
Call(op, arg, ok) == [op |-> op, arg |-> arg, ok |-> ok]

NoDelivery == [body |-> BodyMalformed, tag |-> 0, redelivered |-> FALSE]

\* No JobStateMachine has been constructed.
NoMachine == "none"

\* The parsed event of consumer c's delivery (local variable event).
Event(c) == json_loads(delivery[c].body).value.obj
JobData(c) == Event(c).payload

\* All sequences of n bodies of the corpus.
QueuesOfLen(n) == [1..n -> Corpus]

\* str.strip() on a text given as its sequence of characters.
RECURSIVE strip(_)
strip(text) ==
    IF text = <<>> THEN text
    ELSE IF Head(text) \in {" ", "\n"} THEN strip(Tail(text))
    ELSE IF text[Len(text)] \in {" ", "\n"} THEN strip(SubSeq(text, 1, Len(text) - 1))
    ELSE text

\* \d+
IsNumber(text) ==
    /\ text # <<>>
    /\ \A i \in DOMAIN text : text[i] \in {"0", "1", "2", "3", "4", "5", "6", "7", "8", "9"}

\* re.match(r'^\d+\.\d+\.\d+$', text)
IsSemVer(text) ==
    \E i, j \in DOMAIN text :
        /\ i < j
        /\ text[i] = "."
        /\ text[j] = "."
        /\ IsNumber(SubSeq(text, 1, i - 1))
        /\ IsNumber(SubSeq(text, i + 1, j - 1))
        /\ IsNumber(SubSeq(text, j + 1, Len(text)))

\* The VERSION file of the service, "0.1.0", and the files a broken build may
\* ship instead: none, an empty one, a two-part version, a tagged version.
VersionFile == [exists |-> TRUE, text |-> <<"0", ".", "1", ".", "0", "\n">>]
VersionFiles ==
    {VersionFile,
     [exists |-> FALSE, text |-> <<>>],
     [exists |-> TRUE, text |-> <<>>],
     [exists |-> TRUE, text |-> <<"1", ".", "0", "\n">>],
     [exists |-> TRUE, text |-> <<"v", "0", ".", "1", ".", "0">>]}

\* The try block at import: open(VERSION_PATH) and the SemVer test succeed.
VersionLoads(file) == file.exists /\ IsSemVer(strip(file.text))

\* No direct call of a validator function has been made.
NoResult == [fn |-> "none"]
NoValidatorCall == v_obj = EmptyObj /\ v_out = NoResult

\* The state before any process has started, with the given bodies waiting in
\* jobs.created and the contract documents of dir deployed.
InitWith(bodies, dir) ==
    /\ inbound = [i \in DOMAIN bodies |-> [body |-> bodies[i], redelivered |-> FALSE]]
    /\ published = [q \in {QUEUE_NAME, OUT_QUEUE, DLQ_NAME} |-> <<>>]
    /\ deliveries = 0
    /\ store = EmptyObj
    /\ openConns = 0
    /\ counters = [processed |-> 0, completed |-> 0, failed |-> 0,
                   validation_failed |-> 0]
    /\ uuids = 0
    /\ delivery = [c \in Consumers |-> NoDelivery]
    /\ correlation_id = [c \in Consumers |-> "unknown"]
    /\ conn = [c \in Consumers |-> "none"]
    /\ tx = [c \in Consumers |-> <<>>]
    /\ calls = [c \in Consumers |-> <<>>]
    /\ schema_cache = [c \in Consumers |-> {}]
    /\ validators = [c \in Consumers |-> {}]
    /\ reads = [c \in Consumers |-> [n \in SchemaFiles |-> 0]]
    /\ validated = [c \in Consumers |-> {}]
    /\ unacked = [c \in Consumers |-> <<>>]
    /\ schemas_dir = dir
    /\ table = FALSE
    /\ declared = {}
    /\ qos = [c \in Consumers |-> 0]
    /\ main_conn = [c \in Consumers |-> "none"]
    /\ main_stale = [c \in Consumers |-> 0]
    /\ sm_status = NoMachine
    /\ sm_events = {}
    /\ sm_log = <<>>

\* Every contract document is deployed; any MaxMsgs bodies are waiting.
InitCommon ==
    /\ \E q \in QueuesOfLen(MaxMsgs) : InitWith(q, SchemaFiles)
    /\ NoValidatorCall
    /\ version_file = VersionFile

\* One processor instance is started: consumer 1 enters main().
Init ==
    /\ InitCommon
    /\ pc = [c \in Consumers |-> IF c = 1 THEN "import" ELSE "off"]

\* ------------------------------------------------------------ the broker
\* nack(requeue=True), or the channel closing with the delivery unresolved:
\* the message goes back to the head of the queue, marked redelivered.
Requeued(c) == <<[body |-> delivery[c].body, redelivered |-> TRUE]>> \o inbound

\* An ack or nack of c's current delivery reaches the broker.
Resolve(c) ==
    unacked' = [unacked EXCEPT ![c] = SelectSeq(@, LAMBDA d : d.tag # delivery[c].tag)]

\* The channel of c is closed by the exception that left start_consuming:
\* every delivery c holds unresolved goes back to the queue, marked redelivered.
ChannelClosed(c) ==
    /\ inbound' = [i \in DOMAIN unacked[c] |->
                      [body |-> unacked[c][i].body, redelivered |-> TRUE]] \o inbound
    /\ unacked' = [unacked EXCEPT ![c] = <<>>]

\* The deliveries pushed to c that its callback has not been invoked for.
Buffer(c) == SelectSeq(unacked[c], LAMBDA d : d.tag > delivery[c].tag)

\* ------------------------------------------------------------- the store
Row(stmt) ==
    [type |-> stmt.type, status |-> stmt.status, payload |-> stmt.payload,
     created_at |-> stmt.created_at, updated_at |-> "DEFAULT NOW()"]

\* INSERT ... ON CONFLICT (id) DO UPDATE SET status, updated_at
ApplyUpsert(rows, stmt) ==
    IF Has(rows, stmt.id)
    THEN [rows EXCEPT ![stmt.id].status = stmt.status, ![stmt.id].updated_at = "NOW()"]
    ELSE (stmt.id :> Row(stmt)) @@ rows

\* UPDATE jobs SET status = 'COMPLETED', updated_at = 'NOW()' WHERE id = %s
ApplyUpdate(rows, stmt) ==
    IF Has(rows, stmt.id)
    THEN [rows EXCEPT ![stmt.id].status = stmt.status, ![stmt.id].updated_at = "NOW()"]
    ELSE rows

RECURSIVE ApplyAll(_, _)
ApplyAll(rows, stmts) ==
    IF stmts = <<>> THEN rows
    ELSE ApplyAll(IF Head(stmts).kind = "upsert" THEN ApplyUpsert(rows, Head(stmts))
                  ELSE ApplyUpdate(rows, Head(stmts)),
                  Tail(stmts))

\* ----------------------------------------------------------- process_job
Goto(c, label) == pc' = [pc EXCEPT ![c] = label]
Record(c, call) == calls' = [calls EXCEPT ![c] = Append(@, call)]
Inc(name) == counters' = [counters EXCEPT ![name] = @ + 1]

\* ------------------------------------------------------------------ main
\* The statements of main() up to and including basic_consume.
SetupLabels ==
    {"import", "main", "init_db", "init_cursor", "init_execute", "init_commit",
     "init_cur_close", "init_close", "connect_broker", "channel", "declare",
     "declare_out", "declare_dlq", "qos", "consume"}

\* Module import: read VERSION into SERVICE_VERSION; on any exception print
\* FATAL and raise SystemExit(1). Then (under __main__) main() is called.
LoadVersion(c) ==
    /\ pc[c] = "import"
    /\ Goto(c, IF VersionLoads(version_file) THEN "main" ELSE "exited")
    /\ UNCHANGED <<inbound, published, deliveries, store, openConns, counters, uuids,
                   delivery, correlation_id, conn, tx, calls, schema_cache, validators,
                   reads, auxVars, valVars, setupVars, validated, unacked>>

\* print(...); prom.start_http_server(8000): when it raises, main() is left by
\* the exception
MainStart(c) ==
    /\ pc[c] = "main"
    /\ \/ Goto(c, "init_db")
       \/ Goto(c, "exited")
    /\ UNCHANGED <<inbound, published, deliveries, store, openConns, counters, uuids,
                   delivery, correlation_id, conn, tx, calls, schema_cache, validators,
                   reads, auxVars, valVars, setupVars, validated, unacked>>

\* The loop of main():
\*   while True: try: connect; cursor; CREATE TABLE IF NOT EXISTS jobs; commit;
\*                    cur.close(); conn.close(); break
\*               except Exception: print("Waiting for DB..."); time.sleep(5)
\* Each call is a step; a call that raises leads through the except clause back
\* to the connect of the next iteration. Nothing in the except clause closes
\* conn.

\* conn = psycopg2.connect(...) returning: conn is rebound, and a connection an
\* earlier iteration left open is from then on closed by no statement of main().
MainConnected(c) ==
    /\ main_conn[c] = "open" => main_stale[c] < MaxInitLeaks
    /\ main_stale' = [main_stale EXCEPT ![c] = IF main_conn[c] = "open" THEN @ + 1 ELSE @]
    /\ main_conn' = [main_conn EXCEPT ![c] = "open"]
    /\ openConns' = openConns + 1

\* main() giving up on the store after a failed connect instead of retrying.
MainInitDbNoRetry(c) ==
    /\ pc[c] = "init_db"
    /\ \/ /\ MainConnected(c)
          /\ Goto(c, "init_cursor")
       \/ /\ Goto(c, "connect_broker")
          /\ UNCHANGED <<main_conn, main_stale, openConns>>
    /\ UNCHANGED table
    /\ UNCHANGED <<inbound, published, deliveries, store, counters, uuids,
                   delivery, correlation_id, conn, tx, calls, schema_cache, validators,
                   reads, auxVars, valVars, schemas_dir, declared, qos, version_file,
                   validated, unacked>>

\* conn = psycopg2.connect(POSTGRES_URL)
MainInitDb(c) ==
    /\ pc[c] = "init_db"
    /\ \/ /\ MainConnected(c)
          /\ Goto(c, "init_cursor")
       \/ \* connect raises: conn stays bound to what it was; sleep, next iteration
          UNCHANGED <<pc, main_conn, main_stale, openConns>>
    /\ UNCHANGED table
    /\ UNCHANGED <<inbound, published, deliveries, store, counters, uuids,
                   delivery, correlation_id, conn, tx, calls, schema_cache, validators,
                   reads, auxVars, valVars, schemas_dir, declared, qos, version_file,
                   validated, unacked>>

\* cur = conn.cursor()
MainCursor(c) ==
    /\ pc[c] = "init_cursor"
    /\ \/ Goto(c, "init_execute")
       \/ Goto(c, "init_db")
    /\ UNCHANGED <<inbound, published, deliveries, store, openConns, counters, uuids,
                   delivery, correlation_id, conn, tx, calls, schema_cache, validators,
                   reads, auxVars, valVars, setupVars, validated, unacked>>

\* cur.execute("CREATE TABLE IF NOT EXISTS jobs (...)")
MainCreateTable(c) ==
    /\ pc[c] = "init_execute"
    /\ \/ Goto(c, "init_commit")
       \/ Goto(c, "init_db")
    /\ UNCHANGED <<inbound, published, deliveries, store, openConns, counters, uuids,
                   delivery, correlation_id, conn, tx, calls, schema_cache, validators,
                   reads, auxVars, valVars, setupVars, validated, unacked>>

\* conn.commit(): the table exists from here on
MainCommit(c) ==
    /\ pc[c] = "init_commit"
    /\ \/ /\ table' = TRUE
          /\ Goto(c, "init_cur_close")
       \/ /\ Goto(c, "init_db")
          /\ UNCHANGED table
    /\ UNCHANGED <<inbound, published, deliveries, store, openConns, counters, uuids,
                   delivery, correlation_id, conn, tx, calls, schema_cache, validators,
                   reads, auxVars, valVars, schemas_dir, declared, qos, version_file,
                   main_conn, main_stale, validated, unacked>>

\* cur.close()
MainCurClose(c) ==
    /\ pc[c] = "init_cur_close"
    /\ \/ Goto(c, "init_close")
       \/ Goto(c, "init_db")
    /\ UNCHANGED <<inbound, published, deliveries, store, openConns, counters, uuids,
                   delivery, correlation_id, conn, tx, calls, schema_cache, validators,
                   reads, auxVars, valVars, setupVars, validated, unacked>>

\* conn.close(); break
MainConnClose(c) ==
    /\ pc[c] = "init_close"
    /\ \/ /\ main_conn' = [main_conn EXCEPT ![c] = "closed"]
          /\ openConns' = openConns - 1
          /\ Goto(c, "connect_broker")
       \/ /\ Goto(c, "init_db")
          /\ UNCHANGED <<main_conn, openConns>>
    /\ UNCHANGED <<inbound, published, deliveries, store, counters, uuids,
                   delivery, correlation_id, conn, tx, calls, schema_cache, validators,
                   reads, auxVars, valVars, schemas_dir, table, declared, qos, version_file,
                   main_stale, validated, unacked>>

\* A connection main() no longer refers to goes away when the interpreter
\* finalizes it: at once, later or never, which is not up to the code.
MainRelease(c) ==
    /\ main_stale[c] > 0
    /\ main_stale' = [main_stale EXCEPT ![c] = @ - 1]
    /\ openConns' = openConns - 1
    /\ UNCHANGED <<inbound, published, deliveries, store, counters, uuids, pc,
                   delivery, correlation_id, conn, tx, calls, schema_cache, validators,
                   reads, auxVars, valVars, schemas_dir, table, declared, qos, version_file,
                   main_conn, validated, unacked>>

\* params = pika.URLParameters(RABBITMQ_URL);
\* connection = pika.BlockingConnection(params)
\* Nothing in main() catches what the calls on the broker raise: main() is left
\* by the exception and the process ends.
MainConnectBroker(c) ==
    /\ pc[c] = "connect_broker"
    /\ \/ Goto(c, "channel")
       \/ Goto(c, "exited")
    /\ UNCHANGED <<inbound, published, deliveries, store, openConns, counters, uuids,
                   delivery, correlation_id, conn, tx, calls, schema_cache, validators,
                   reads, auxVars, valVars, setupVars, validated, unacked>>

\* channel = connection.channel()
MainChannel(c) ==
    /\ pc[c] = "channel"
    /\ \/ Goto(c, "declare")
       \/ Goto(c, "exited")
    /\ UNCHANGED <<inbound, published, deliveries, store, openConns, counters, uuids,
                   delivery, correlation_id, conn, tx, calls, schema_cache, validators,
                   reads, auxVars, valVars, setupVars, validated, unacked>>

\* The three queue_declare calls of main(), in order: the label main() is at
\* before the call, the queue, the label after it.
QueueDeclares ==
    << <<"declare", QUEUE_NAME, "declare_out">>,
       <<"declare_out", OUT_QUEUE, "declare_dlq">>,
       <<"declare_dlq", DLQ_NAME, "qos">> >>

\* channel.queue_declare(queue=..., durable=True), one call
MainDeclare(c) ==
    /\ \E i \in DOMAIN QueueDeclares :
          /\ pc[c] = QueueDeclares[i][1]
          /\ \/ /\ declared' = declared \cup {QueueDeclares[i][2]}
                /\ Goto(c, QueueDeclares[i][3])
             \/ /\ Goto(c, "exited")
                /\ UNCHANGED declared
    /\ UNCHANGED <<inbound, published, deliveries, store, openConns, counters, uuids,
                   delivery, correlation_id, conn, tx, calls, schema_cache, validators,
                   reads, auxVars, valVars, schemas_dir, table, qos, version_file,
                   main_conn, main_stale, validated, unacked>>

\* main() without the basic_qos call: the channel keeps its default, no limit.
MainNoQos(c) ==
    /\ pc[c] = "qos"
    /\ Goto(c, "consume")
    /\ UNCHANGED <<inbound, published, deliveries, store, openConns, counters, uuids,
                   delivery, correlation_id, conn, tx, calls, schema_cache, validators, reads, auxVars, valVars,
                   setupVars, validated, unacked>>

\* The argument of channel.basic_qos(prefetch_count=1).
prefetch_count == 1

\* channel.basic_qos(prefetch_count=1)
MainQos(c) ==
    /\ pc[c] = "qos"
    /\ \/ /\ qos' = [qos EXCEPT ![c] = prefetch_count]
          /\ Goto(c, "consume")
       \/ /\ Goto(c, "exited")
          /\ UNCHANGED qos
    /\ UNCHANGED <<inbound, published, deliveries, store, openConns, counters, uuids,
                   delivery, correlation_id, conn, tx, calls, schema_cache, validators, reads, auxVars, valVars,
                   schemas_dir, table, declared, version_file, main_conn, main_stale, validated, unacked>>

\* channel.basic_consume(queue=QUEUE_NAME, on_message_callback=process_job):
\* from its return on the broker pushes deliveries to c.
MainConsume(c) ==
    /\ pc[c] = "consume"
    /\ \/ Goto(c, "start_consuming")
       \/ Goto(c, "exited")
    /\ UNCHANGED <<inbound, published, deliveries, store, openConns, counters, uuids,
                   delivery, correlation_id, conn, tx, calls, schema_cache, validators, reads, auxVars, valVars,
                   setupVars, validated, unacked>>

\* print(...); print(...); channel.start_consuming(): the loop that invokes the
\* callback is entered and waits for deliveries between callbacks. Whenever the
\* call raises, before the first callback or while it waits after one, main()
\* is left by the exception and what the broker pushed to c and c has not
\* resolved goes back to the queue.
MainStartConsuming(c) ==
    /\ \/ /\ pc[c] = "start_consuming"
          /\ Goto(c, "idle")
          /\ UNCHANGED <<inbound, unacked>>
       \/ /\ pc[c] \in {"start_consuming", "idle"}
          /\ Goto(c, "exited")
          /\ ChannelClosed(c)
    /\ UNCHANGED <<published, deliveries, store, openConns, counters, uuids,
                   delivery, correlation_id, conn, tx, calls, schema_cache, validators, reads, auxVars, valVars,
                   setupVars, validated>>

\* ------------------------------------------------------------ deliveries
\* c has registered its callback and its channel is open.
Consuming(c) == pc[c] \notin SetupLabels \cup {"off", "exited", "crashed"}

\* The broker pushes the head of jobs.created to a consumer whose count of
\* unresolved deliveries is below its prefetch count.
Push(c) ==
    /\ Consuming(c)
    /\ inbound # <<>>
    /\ deliveries < MaxDeliveries
    /\ qos[c] = 0 \/ Len(unacked[c]) < qos[c]
    /\ unacked' = [unacked EXCEPT ![c] =
                      Append(@, [body |-> Head(inbound).body, tag |-> deliveries + 1,
                                 redelivered |-> Head(inbound).redelivered])]
    /\ inbound' = Tail(inbound)
    /\ deliveries' = deliveries + 1
    /\ UNCHANGED <<published, store, openConns, counters, uuids, pc, delivery,
                   correlation_id, conn, tx, calls, schema_cache, validators, reads, auxVars, valVars, setupVars,
                   validated>>

\* start_consuming invokes the callback for the next delivery pushed to c, once
\* the previous invocation has returned.
Deliver(c) ==
    /\ pc[c] = "idle"
    /\ Buffer(c) # <<>>
    /\ delivery' = [delivery EXCEPT ![c] = Head(Buffer(c))]
    /\ calls' = [calls EXCEPT ![c] = <<>>]
    /\ conn' = [conn EXCEPT ![c] = "none"]
    /\ Goto(c, "start")
    /\ UNCHANGED <<inbound, published, deliveries, store, openConns, counters, uuids,
                   correlation_id, tx, schema_cache, validators, reads, auxVars, valVars, setupVars, validated,
                   unacked>>

\* JOBS_PROCESSED.inc(); start_time = ...; correlation_id = 'unknown'
Start(c) ==
    /\ pc[c] = "start"
    /\ Inc("processed")
    /\ Record(c, Call("inc", "JOBS_PROCESSED", TRUE))
    /\ correlation_id' = [correlation_id EXCEPT ![c] = "unknown"]
    /\ Goto(c, "parse")
    /\ UNCHANGED <<inbound, published, deliveries, store, openConns, uuids, delivery,
                   conn, tx, schema_cache, validators, reads, auxVars, valVars, setupVars, validated, unacked>>

\* event = json.loads(body); correlation_id = get_correlation_id(event); print(...)
ParseBody(c) ==
    /\ pc[c] = "parse"
    /\ LET parsed == json_loads(delivery[c].body)
       IN \/ /\ parsed.exc = "JSONDecodeError"
             /\ Goto(c, "json_error")
             /\ UNCHANGED correlation_id
          \/ /\ parsed.exc = "UnicodeDecodeError"
             /\ Goto(c, "error")
             /\ UNCHANGED correlation_id
          \/ /\ parsed.exc = "none"
             /\ get_correlation_id(parsed.value).exc # "none"
             /\ Goto(c, "error")
             /\ UNCHANGED correlation_id
          \/ /\ parsed.exc = "none"
             /\ get_correlation_id(parsed.value).exc = "none"
             /\ correlation_id' = [correlation_id EXCEPT ![c] =
                                      get_correlation_id(parsed.value).value]
             /\ Goto(c, "validate")
    /\ UNCHANGED <<inbound, published, deliveries, store, openConns, counters, uuids,
                   delivery, conn, tx, calls, schema_cache, validators, reads, auxVars, valVars, setupVars, validated, unacked>>

\* The schema names validate_message loads for an event: the envelope schema,
\* and the job schema when the envelope is valid and the event is a job.* one.
SchemasUsed(event) ==
    {"event-envelope"} \cup
    (IF validate_event_envelope(event).ok /\ Has(event, "eventType")
        /\ StartsWithJob(event.eventType)
     THEN {"job"} ELSE {})

\* _get_validator / _load_schema reading and compiling the schema on every call,
\* without looking at the caches.
NeedsLoadAlways(c, name) == TRUE

\* _get_validator: if name not in self._validators: self._load_schema(name);
\* _load_schema: if name not in self._cache: read and compile.
NeedsLoad(c, name) == name \notin validators[c] /\ name \notin schema_cache[c]

\* The names whose file the validator of c reads, caches and compiles when it
\* is asked for names: those it has to load and whose file exists.
Loads(c, names) == {n \in names : NeedsLoad(c, n) /\ n \in schemas_dir}

\* What _get_validator(name) for each of names does to the validator of c: the
\* files it reads are cached and compiled.
LoadFor(c, names) ==
    /\ schema_cache' = [schema_cache EXCEPT ![c] = @ \cup Loads(c, names)]
    /\ validators' = [validators EXCEPT ![c] = @ \cup Loads(c, names)]
    /\ reads' = [reads EXCEPT ![c] =
                    [n \in SchemaFiles |-> IF n \in Loads(c, names) THEN @[n] + 1 ELSE @[n]]]

\* is_valid, validation_error = validate_message(event); if not is_valid: ...
Validate(c) ==
    /\ pc[c] = "validate"
    /\ LoadFor(c, SchemasUsed(Event(c)))
    /\ validated' = [validated EXCEPT ![c] = SchemasUsed(Event(c))]
    /\ \/ /\ ~validate_message(Event(c)).ok
          /\ Inc("validation_failed")
          /\ Record(c, Call("inc", "JOBS_VALIDATION_FAILED", TRUE))
          /\ Goto(c, "dlq_publish")
       \/ /\ validate_message(Event(c)).ok
          /\ Goto(c, "extract")
          /\ UNCHANGED <<counters, calls>>
    /\ UNCHANGED <<inbound, published, deliveries, store, openConns, uuids, delivery,
                   correlation_id, conn, tx, auxVars, valVars, setupVars, unacked>>

\* The Dead-Letter Record built at lines 60-67.
DlqMessage(c) ==
    [original_event |-> Event(c),
     validation_error |-> validate_message(Event(c)),
     rejected_at |-> "now",
     correlation_id |-> correlation_id[c],
     service |-> "processor",
     service_version |-> SERVICE_VERSION]

\* ch.basic_publish(routing_key=DLQ_NAME, ..., delivery_mode=2)
DlqPublish(c) ==
    /\ pc[c] = "dlq_publish"
    /\ \/ /\ published' = [published EXCEPT ![DLQ_NAME] =
                              Append(@, [body |-> DlqMessage(c), delivery_mode |-> 2])]
          /\ Record(c, Call("basic_publish", DLQ_NAME, TRUE))
          /\ Goto(c, "reject")
       \/ /\ Record(c, Call("basic_publish", DLQ_NAME, FALSE))
          /\ Goto(c, "error")
          /\ UNCHANGED published
    /\ UNCHANGED <<inbound, deliveries, store, openConns, counters, uuids, delivery,
                   correlation_id, conn, tx, schema_cache, validators, reads, auxVars, valVars, setupVars, validated, unacked>>

\* ch.basic_nack(delivery_tag, requeue=False); return
Reject(c) ==
    /\ pc[c] = "reject"
    /\ \/ /\ Record(c, Call("basic_nack", "requeue=False", TRUE))
          /\ Resolve(c)
          /\ Goto(c, "idle")
       \/ /\ Record(c, Call("basic_nack", "requeue=False", FALSE))
          /\ Goto(c, "error")
          /\ UNCHANGED unacked
    /\ UNCHANGED <<inbound, published, deliveries, store, openConns, counters, uuids,
                   delivery, correlation_id, conn, tx, schema_cache, validators, reads, auxVars, valVars, setupVars,
                   validated>>

\* job_data = event['payload']; job_id = job_data['id']
Extract(c) ==
    /\ pc[c] = "extract"
    /\ \/ /\ Has(Event(c), "payload") /\ Has(JobData(c), "id")
          /\ Goto(c, "connect")
       \/ /\ ~(Has(Event(c), "payload") /\ Has(JobData(c), "id"))
          /\ Goto(c, "error")
    /\ UNCHANGED <<inbound, published, deliveries, store, openConns, counters, uuids,
                   delivery, correlation_id, conn, tx, calls, schema_cache, validators, reads, auxVars, valVars, setupVars, validated, unacked>>

\* conn = psycopg2.connect(POSTGRES_URL)
Connect(c) ==
    /\ pc[c] = "connect"
    /\ \/ /\ conn' = [conn EXCEPT ![c] = "open"]
          /\ openConns' = openConns + 1
          /\ Record(c, Call("connect", "", TRUE))
          /\ Goto(c, "cursor")
       \/ /\ Record(c, Call("connect", "", FALSE))
          /\ Goto(c, "error")
          /\ UNCHANGED <<conn, openConns>>
    /\ UNCHANGED <<inbound, published, deliveries, store, counters, uuids, delivery,
                   correlation_id, tx, schema_cache, validators, reads, auxVars, valVars, setupVars, validated, unacked>>

\* cur = conn.cursor()
Cursor(c) ==
    /\ pc[c] = "cursor"
    /\ \/ /\ Record(c, Call("cursor", "", TRUE))
          /\ Goto(c, "upsert")
       \/ /\ Record(c, Call("cursor", "", FALSE))
          /\ Goto(c, "error")
    /\ UNCHANGED <<inbound, published, deliveries, store, openConns, counters, uuids,
                   delivery, correlation_id, conn, tx, schema_cache, validators, reads, auxVars, valVars, setupVars, validated, unacked>>

\* The parameters of the upsert: job_data['type'], json.dumps(job_data['payload']),
\* job_data['createdAt'] are subscripts, and raise KeyError on a missing key.
UpsertKeys == {"type", "payload", "createdAt"}

UpsertStmt(c) ==
    [kind |-> "upsert", id |-> JobData(c).id, type |-> JobData(c).type,
     status |-> UpsertStatus, payload |-> json_dumps(JobData(c).payload),
     created_at |-> JobData(c).createdAt]

\* cur.execute("INSERT INTO jobs ... ON CONFLICT (id) DO UPDATE ...", (...))
Upsert(c) ==
    /\ pc[c] = "upsert"
    /\ \/ /\ ~(UpsertKeys \subseteq DOMAIN JobData(c))
          /\ Goto(c, "error")
          /\ UNCHANGED <<tx, calls>>
       \/ /\ UpsertKeys \subseteq DOMAIN JobData(c)
          /\ tx' = [tx EXCEPT ![c] = Append(@, UpsertStmt(c))]
          /\ Record(c, Call("execute", "upsert", TRUE))
          /\ Goto(c, "commit1")
       \/ /\ UpsertKeys \subseteq DOMAIN JobData(c)
          /\ Record(c, Call("execute", "upsert", FALSE))
          /\ Goto(c, "error")
          /\ UNCHANGED tx
    /\ UNCHANGED <<inbound, published, deliveries, store, openConns, counters, uuids,
                   delivery, correlation_id, conn, schema_cache, validators, reads, auxVars, valVars, setupVars, validated, unacked>>

\* conn.commit(): the pending statements take effect together.
Commit(c, label, next) ==
    /\ pc[c] = label
    /\ \/ /\ store' = ApplyAll(store, tx[c])
          /\ tx' = [tx EXCEPT ![c] = <<>>]
          /\ Record(c, Call("commit", "", TRUE))
          /\ Goto(c, next)
       \/ /\ Record(c, Call("commit", "", FALSE))
          /\ Goto(c, "error")
          /\ UNCHANGED <<store, tx>>
    /\ UNCHANGED <<inbound, published, deliveries, openConns, counters, uuids,
                   delivery, correlation_id, conn, schema_cache, validators, reads, auxVars, valVars, setupVars, validated, unacked>>

\* conn.commit() after the upsert; print(...); time.sleep(2)
Commit1(c) == Commit(c, "commit1", "update")

UpdateStmt(c) == [kind |-> "update", id |-> JobData(c).id, status |-> FinalStatus]

\* process_job going from the UPDATE straight to cur.close(), without the
\* second conn.commit().
UpdateNoCommit(c) ==
    /\ pc[c] = "update"
    /\ \/ /\ tx' = [tx EXCEPT ![c] = Append(@, UpdateStmt(c))]
          /\ Record(c, Call("execute", "update", TRUE))
          /\ Goto(c, "cur_close")
       \/ /\ Record(c, Call("execute", "update", FALSE))
          /\ Goto(c, "error")
          /\ UNCHANGED tx
    /\ UNCHANGED <<inbound, published, deliveries, store, openConns, counters, uuids,
                   delivery, correlation_id, conn, schema_cache, validators, reads, auxVars,
                   valVars, setupVars, validated, unacked>>

\* cur.execute("UPDATE jobs SET status = 'COMPLETED', ... WHERE id = %s", (job_id,))
Update(c) ==
    /\ pc[c] = "update"
    /\ \/ /\ tx' = [tx EXCEPT ![c] = Append(@, UpdateStmt(c))]
          /\ Record(c, Call("execute", "update", TRUE))
          /\ Goto(c, "commit2")
       \/ /\ Record(c, Call("execute", "update", FALSE))
          /\ Goto(c, "error")
          /\ UNCHANGED tx
    /\ UNCHANGED <<inbound, published, deliveries, store, openConns, counters, uuids,
                   delivery, correlation_id, conn, schema_cache, validators, reads, auxVars, valVars, setupVars, validated, unacked>>

\* A second conn.commit() that returns without the store having applied the
\* UPDATE.
Commit2Lost(c) ==
    /\ pc[c] = "commit2"
    /\ tx' = [tx EXCEPT ![c] = <<>>]
    /\ Record(c, Call("commit", "", TRUE))
    /\ Goto(c, "cur_close")
    /\ UNCHANGED <<inbound, published, deliveries, store, openConns, counters, uuids,
                   delivery, correlation_id, conn, schema_cache, validators, reads, auxVars,
                   valVars, setupVars, validated, unacked>>

\* conn.commit() after the update
Commit2(c) == Commit(c, "commit2", "cur_close")

\* cur.close(): when it raises, conn.close() is not reached
CurClose(c) ==
    /\ pc[c] = "cur_close"
    /\ \/ /\ Record(c, Call("close", "cursor", TRUE))
          /\ Goto(c, "close")
       \/ /\ Record(c, Call("close", "cursor", FALSE))
          /\ Goto(c, "error")
    /\ UNCHANGED <<inbound, published, deliveries, store, openConns, counters, uuids,
                   delivery, correlation_id, conn, tx, schema_cache, validators, reads,
                   auxVars, valVars, setupVars, validated, unacked>>

\* conn.close(): when it raises, the connection stays open
Close(c) ==
    /\ pc[c] = "close"
    /\ \/ /\ conn' = [conn EXCEPT ![c] = "closed"]
          /\ openConns' = openConns - 1
          /\ Record(c, Call("close", "", TRUE))
          /\ Goto(c, "publish")
       \/ /\ Record(c, Call("close", "", FALSE))
          /\ Goto(c, "error")
          /\ UNCHANGED <<conn, openConns>>
    /\ UNCHANGED <<inbound, published, deliveries, store, counters, uuids, delivery,
                   correlation_id, tx, schema_cache, validators, reads, auxVars, valVars, setupVars, validated, unacked>>

\* The completion event published under the eventId of the triggering event.
CompletionEventSameId(c) ==
    [Event(c) EXCEPT !.eventType = "job.completed",
                     !.occurredAt = "now",
                     !.producer.service = "processor"]

\* The Completion Event built at lines 106-110 from a shallow copy of the event.
CompletionEvent(c) ==
    [Event(c) EXCEPT !.eventType = "job.completed",
                     !.eventId = ToString(uuids + 1),
                     !.occurredAt = "now",
                     !.producer.service = "processor"]

\* The same statement with basic_ack moved in front of basic_publish: the
\* delivery is acknowledged while the completion event is still unpublished.
AckBeforePublish(c) ==
    /\ pc[c] = "publish"
    /\ Record(c, Call("basic_ack", "", TRUE))
    /\ Goto(c, "metrics")
    /\ UNCHANGED <<inbound, published, deliveries, store, openConns, counters, uuids,
                   delivery, correlation_id, conn, tx, schema_cache, validators, reads, auxVars, valVars, setupVars, validated, unacked>>

\* completion_event = event.copy(); ...; ch.basic_publish(routing_key=OUT_QUEUE, ...)
Publish(c) ==
    /\ pc[c] = "publish"
    /\ uuids' = uuids + 1
    /\ \/ /\ published' = [published EXCEPT ![OUT_QUEUE] =
                              Append(@, [body |-> CompletionEvent(c), delivery_mode |-> 1])]
          /\ Record(c, Call("basic_publish", OUT_QUEUE, TRUE))
          /\ Goto(c, "ack")
       \/ /\ Record(c, Call("basic_publish", OUT_QUEUE, FALSE))
          /\ Goto(c, "error")
          /\ UNCHANGED published
    /\ UNCHANGED <<inbound, deliveries, store, openConns, counters, delivery,
                   correlation_id, conn, tx, schema_cache, validators, reads, auxVars, valVars, setupVars, validated, unacked>>

\* ch.basic_ack(delivery_tag=method.delivery_tag)
Ack(c) ==
    /\ pc[c] = "ack"
    /\ \/ /\ Record(c, Call("basic_ack", "", TRUE))
          /\ Resolve(c)
          /\ Goto(c, "metrics")
       \/ /\ Record(c, Call("basic_ack", "", FALSE))
          /\ Goto(c, "error")
          /\ UNCHANGED unacked
    /\ UNCHANGED <<inbound, published, deliveries, store, openConns, counters, uuids,
                   delivery, correlation_id, conn, tx, schema_cache, validators, reads, auxVars, valVars, setupVars,
                   validated>>

\* JOBS_COMPLETED.inc(); PROCESSING_TIME.observe(...); print(...)
Metrics(c) ==
    /\ pc[c] = "metrics"
    /\ Inc("completed")
    /\ calls' = [calls EXCEPT ![c] =
                    @ \o <<Call("inc", "JOBS_COMPLETED", TRUE),
                           Call("observe", "PROCESSING_TIME", TRUE)>>]
    /\ Goto(c, "idle")
    /\ UNCHANGED <<inbound, published, deliveries, store, openConns, uuids, delivery,
                   correlation_id, conn, tx, schema_cache, validators, reads, auxVars, valVars, setupVars, validated, unacked>>

\* except json.JSONDecodeError: JOBS_VALIDATION_FAILED.inc(); basic_nack(requeue=False).
\* A nack that raises leaves process_job as an exception: the consumer stops and
\* the broker requeues the unresolved delivery.
JsonError(c) ==
    /\ pc[c] = "json_error"
    /\ Inc("validation_failed")
    /\ \/ /\ calls' = [calls EXCEPT ![c] =
                          @ \o <<Call("inc", "JOBS_VALIDATION_FAILED", TRUE),
                                 Call("basic_nack", "requeue=False", TRUE)>>]
          /\ Goto(c, "idle")
          /\ Resolve(c)
          /\ UNCHANGED inbound
       \/ /\ calls' = [calls EXCEPT ![c] =
                          @ \o <<Call("inc", "JOBS_VALIDATION_FAILED", TRUE),
                                 Call("basic_nack", "requeue=False", FALSE)>>]
          /\ Goto(c, "crashed")
          /\ ChannelClosed(c)
    /\ UNCHANGED <<published, deliveries, store, openConns, uuids, delivery,
                   correlation_id, conn, tx, schema_cache, validators, reads, auxVars, valVars, setupVars,
                   validated>>

\* The generic handler nacking without requeue, as the JSON handler does.
ErrorRequeueMut == "requeue=False"

\* The requeue argument of the nack in the generic handler.
ErrorRequeue == "requeue=True"

\* except Exception: JOBS_FAILED.inc(); basic_nack(requeue=True).
\* The statements not committed are never committed; the connection is not closed.
Error(c) ==
    /\ pc[c] = "error"
    /\ Inc("failed")
    /\ tx' = [tx EXCEPT ![c] = <<>>]
    /\ \/ /\ calls' = [calls EXCEPT ![c] =
                          @ \o <<Call("inc", "JOBS_FAILED", TRUE),
                                 Call("basic_nack", ErrorRequeue, TRUE)>>]
          /\ Goto(c, "idle")
          /\ Resolve(c)
          /\ inbound' = IF ErrorRequeue = "requeue=True" THEN Requeued(c) ELSE inbound
       \/ /\ calls' = [calls EXCEPT ![c] =
                          @ \o <<Call("inc", "JOBS_FAILED", TRUE),
                                 Call("basic_nack", ErrorRequeue, FALSE)>>]
          /\ Goto(c, "crashed")
          /\ ChannelClosed(c)
    /\ UNCHANGED <<published, deliveries, store, openConns, uuids, delivery,
                   correlation_id, conn, schema_cache, validators, reads, auxVars, valVars, setupVars, validated>>

\* ------------------------------------------------------------ the system
\* After process_job has returned without conn.close() (every path through the
\* except blocks), nothing refers to the local conn any more: whether and when
\* the connection object's finalizer releases the connection is up to the
\* interpreter's memory management, so it may happen now, later or never.
Finalize(c) ==
    /\ pc[c] \in {"idle", "crashed"}
    /\ conn[c] = "open"
    /\ conn' = [conn EXCEPT ![c] = "closed"]
    /\ openConns' = openConns - 1
    /\ UNCHANGED <<inbound, published, deliveries, store, counters, uuids, pc, delivery,
                   correlation_id, tx, calls, schema_cache, validators, reads, auxVars, valVars, setupVars, validated,
                   unacked>>

Step(c) ==
    \/ LoadVersion(c) \/ MainStart(c) \/ MainInitDb(c) \/ MainCursor(c) \/ MainCreateTable(c)
    \/ MainCommit(c) \/ MainCurClose(c) \/ MainConnClose(c) \/ MainRelease(c)
    \/ MainConnectBroker(c) \/ MainChannel(c) \/ MainDeclare(c) \/ MainQos(c) \/ MainConsume(c)
    \/ MainStartConsuming(c)
    \/ Push(c) \/ Deliver(c) \/ Start(c) \/ ParseBody(c) \/ Validate(c) \/ DlqPublish(c)
    \/ Reject(c) \/ Extract(c) \/ Connect(c) \/ Cursor(c) \/ Upsert(c) \/ Commit1(c)
    \/ Update(c) \/ Commit2(c) \/ CurClose(c) \/ Close(c) \/ Publish(c) \/ Ack(c) \/ Metrics(c)
    \/ JsonError(c) \/ Error(c) \/ Finalize(c)

Next == \E c \in Consumers : Step(c)

Spec == Init /\ [][Next]_vars

\* Two processor instances started against the same broker and store.
\* The bodies waiting: two events for the same job; a contract-violating event
\* ahead of an event for the job; bytes that are no JSON ahead of one.
ConcurrentQueues ==
    {<<BodyValid, BodyValid2>>, <<BodyMissingFields, BodyValid>>, <<BodyMalformed, BodyValid>>}
InitConcurrent ==
    /\ \E q \in ConcurrentQueues : InitWith(q, SchemaFiles)
    /\ NoValidatorCall
    /\ version_file = VersionFile
    /\ pc = [c \in Consumers |-> "import"]

SpecConcurrent == InitConcurrent /\ [][Next]_vars

\* The processor started in any deployment: each contract document is present
\* in the schemas directory or missing from it.
InitConfig ==
    /\ \E q \in QueuesOfLen(MaxMsgs), dir \in SUBSET SchemaFiles : InitWith(q, dir)
    /\ NoValidatorCall
    /\ version_file \in VersionFiles
    /\ pc = [c \in Consumers |-> IF c = 1 THEN "import" ELSE "off"]

SpecConfig == InitConfig /\ [][Next]_vars

\* ------------------------------------------------------- JobStateMachine
\* What the process_job side of the state does while the JobStateMachine is
\* exercised: nothing.
processVars == <<inbound, published, deliveries, store, openConns, counters, uuids,
                 pc, delivery, correlation_id, conn, tx, calls, schema_cache, validators, reads,
                 validated, unacked, schemas_dir, table, declared, qos, version_file, main_conn,
                 main_stale>>

\* The arguments the calls are made with.
StatusArgs == VALID_STATUSES \cup {"INVALID_STATUS", "None"}
EventIds == {"evt-001", "evt-002"}
DeliveryTags == {1, 2}

\* One recorded call on the class: the method, its arguments, the status the
\* machine had before, and the value returned or the exception raised.
SmCall(op, args, before, result) ==
    [op |-> op, args |-> args, before |-> before, result |-> result]

SmRecord(call) == sm_log' = Append(sm_log, call)

\* __init__ without the check of initial_status.
JobStateMachineUnchecked(initial_status) ==
    /\ sm_status = NoMachine
    /\ Len(sm_log) < MaxSmCalls
    /\ sm_status' = initial_status
    /\ sm_events' = {}
    /\ SmRecord(SmCall("__init__", <<initial_status>>, NoMachine, "machine"))
    /\ UNCHANGED <<processVars, valVars>>

\* JobStateMachine(job_id, initial_status): raises ValueError and constructs
\* nothing unless initial_status is a valid status.
JobStateMachine(initial_status) ==
    /\ sm_status = NoMachine
    /\ Len(sm_log) < MaxSmCalls
    /\ \/ /\ initial_status \notin VALID_STATUSES
          /\ SmRecord(SmCall("__init__", <<initial_status>>, NoMachine, "ValueError"))
          /\ UNCHANGED <<sm_status, sm_events>>
       \/ /\ initial_status \in VALID_STATUSES
          /\ sm_status' = initial_status
          /\ sm_events' = {}
          /\ SmRecord(SmCall("__init__", <<initial_status>>, NoMachine, "machine"))
    /\ UNCHANGED <<processVars, valVars>>

\* VALID_TRANSITIONS.get(self.status, set())
AllowedFrom(status) ==
    IF status \in DOMAIN VALID_TRANSITIONS THEN VALID_TRANSITIONS[status] ELSE {}

\* transition(new_status): ValueError for an invalid target; True and the new
\* status when the table allows it; False otherwise.
transition(new_status) ==
    /\ sm_status # NoMachine
    /\ Len(sm_log) < MaxSmCalls
    /\ \/ /\ new_status \notin VALID_STATUSES
          /\ SmRecord(SmCall("transition", <<new_status>>, sm_status, "ValueError"))
          /\ UNCHANGED sm_status
       \/ /\ new_status \in VALID_STATUSES
          /\ new_status \in AllowedFrom(sm_status)
          /\ sm_status' = new_status
          /\ SmRecord(SmCall("transition", <<new_status>>, sm_status, "True"))
       \/ /\ new_status \in VALID_STATUSES
          /\ new_status \notin AllowedFrom(sm_status)
          /\ SmRecord(SmCall("transition", <<new_status>>, sm_status, "False"))
          /\ UNCHANGED sm_status
    /\ UNCHANGED <<sm_events, processVars, valVars>>

\* The de-dup key taken to be the event id together with the delivery tag.
EventKeyWithTag(event_id, delivery_tag) == <<event_id, delivery_tag>>

\* The key process_event looks up in processed_event_ids: the event id alone.
EventKey(event_id, delivery_tag) == event_id

\* process_event(event_id, delivery_tag, redelivered)
process_event(event_id, delivery_tag, redelivered) ==
    /\ sm_status # NoMachine
    /\ Len(sm_log) < MaxSmCalls
    /\ \/ /\ EventKey(event_id, delivery_tag) \in sm_events
          /\ SmRecord(SmCall("process_event", <<event_id, delivery_tag, redelivered>>,
                             sm_status, "duplicate"))
          /\ UNCHANGED sm_events
       \/ /\ EventKey(event_id, delivery_tag) \notin sm_events
          /\ sm_events' = sm_events \cup {EventKey(event_id, delivery_tag)}
          /\ SmRecord(SmCall("process_event", <<event_id, delivery_tag, redelivered>>,
                             sm_status, "processed"))
    /\ UNCHANGED <<sm_status, processVars, valVars>>

\* No processor is running and nothing is queued; no machine exists yet.
InitSM ==
    /\ InitWith(<<>>, SchemaFiles)
    /\ NoValidatorCall
    /\ version_file = VersionFile
    /\ pc = [c \in Consumers |-> "off"]

NextSM ==
    \/ \E initial_status \in StatusArgs : JobStateMachine(initial_status)
    \/ \E new_status \in StatusArgs : transition(new_status)
    \/ \E event_id \in EventIds, delivery_tag \in DeliveryTags, redelivered \in BOOLEAN :
          process_event(event_id, delivery_tag, redelivered)

SpecSM == InitSM /\ [][NextSM]_vars

\* ------------------------------------------------- the validator on its own
\* The objects the validator functions are called with: an envelope and a job
\* that satisfy their contracts, restricted to every subset of the required
\* fields, so that every number of violations from none to all occurs.
FullEnvelope == Envelope("job.created", "evt-1", "idem-1", JobNoPayload("j1"))
FullJob == JobNoPayload("j1")
Restrict(obj, keys) == [k \in keys |-> obj[k]]
ValidatorInputs ==
    {Restrict(FullEnvelope, keys) : keys \in SUBSET DOMAIN FullEnvelope}
    \cup {Restrict(FullJob, keys) : keys \in SUBSET DOMAIN FullJob}

\* get_validator().validate_event_envelope(event) in process c: the call goes
\* through _get_validator, which loads and compiles the schema when needed.
CallValidateEventEnvelope(c) ==
    /\ v_out = NoResult
    /\ v_out' = [fn |-> "validate_event_envelope", result |-> validate_event_envelope(v_obj)]
    /\ LoadFor(c, {"event-envelope"})
    /\ UNCHANGED <<v_obj, inbound, published, deliveries, store, openConns, counters,
                   uuids, pc, delivery, correlation_id, conn, tx, calls, validated,
                   unacked, setupVars, auxVars>>

\* get_validator().validate_job(job) in process c
CallValidateJob(c) ==
    /\ v_out = NoResult
    /\ v_out' = [fn |-> "validate_job", result |-> validate_job(v_obj)]
    /\ LoadFor(c, {"job"})
    /\ UNCHANGED <<v_obj, inbound, published, deliveries, store, openConns, counters,
                   uuids, pc, delivery, correlation_id, conn, tx, calls, validated,
                   unacked, setupVars, auxVars>>

InitValidator ==
    /\ InitWith(<<>>, SchemaFiles)
    /\ version_file = VersionFile
    /\ pc = [c \in Consumers |-> "off"]
    /\ v_obj \in ValidatorInputs
    /\ v_out = NoResult

NextValidator == \E c \in Consumers : CallValidateEventEnvelope(c) \/ CallValidateJob(c)

SpecValidator == InitValidator /\ [][NextValidator]_vars

\* ------------------------------------------------- vocabulary of the claims
\* Consumer c has handled a delivery to the end: process_job has returned, or
\* has been left by an exception raised in one of its handlers.
Handled(c) == pc[c] \in {"idle", "crashed"} /\ calls[c] # <<>>

\* The positions in c's call log that hold a call of the set S.
CallsIn(c, S) == {i \in DOMAIN calls[c] : calls[c][i] \in S}

\* The positions in c's call log of the calls that raised.
FailedCalls(c) == {i \in DOMAIN calls[c] : ~calls[c][i].ok}

AckCalls == {Call("basic_ack", "", ok) : ok \in BOOLEAN}
NackRequeueCalls == {Call("basic_nack", "requeue=True", ok) : ok \in BOOLEAN}
NackNoRequeueCalls == {Call("basic_nack", "requeue=False", ok) : ok \in BOOLEAN}
NackCalls == NackRequeueCalls \cup NackNoRequeueCalls
ResolutionCalls == AckCalls \cup NackCalls
ExecuteCalls == {Call("execute", stmt, ok) : stmt \in {"upsert", "update"}, ok \in BOOLEAN}
DlqPublishCalls == {Call("basic_publish", DLQ_NAME, ok) : ok \in BOOLEAN}
CompletionPublishCalls == {Call("basic_publish", OUT_QUEUE, ok) : ok \in BOOLEAN}
PublishCalls ==
    {Call("basic_publish", q, ok) : q \in {QUEUE_NAME, OUT_QUEUE, DLQ_NAME}, ok \in BOOLEAN}
IncValidationFailed == {Call("inc", "JOBS_VALIDATION_FAILED", TRUE)}

\* The body of c's delivery decoded to a JSON object.
ParsedDict(c) ==
    /\ json_loads(delivery[c].body).exc = "none"
    /\ json_loads(delivery[c].body).value.isdict

\* The body decoded to an object that validate_message accepts / rejects.
ValidMessage(c) == ParsedDict(c) /\ validate_message(Event(c)).ok
InvalidMessage(c) == ParsedDict(c) /\ ~validate_message(Event(c)).ok

\* A job.created envelope that satisfies both contracts.
WellFormedJobCreated(c) == ValidMessage(c) /\ Event(c).eventType = "job.created"

\* ------------------------------------------------------------------- C1
\* C1: every handled delivery has exactly one resolution call (basic_ack or
\* basic_nack) in its call log, and that call is the last call made for it.
C1_ResolvedOnceAndLast ==
    \A c \in Consumers :
        Handled(c) =>
            /\ Cardinality(CallsIn(c, ResolutionCalls)) = 1
            /\ calls[c][Len(calls[c])] \in ResolutionCalls

\* ------------------------------------------------------------------- C2
\* C2: a handled delivery whose message validate_message rejected made no store
\* write, published exactly one record, to jobs.failed.validation and with
\* delivery mode 2, counted one validation failure, and was resolved by one
\* basic_nack(requeue=False) and never by basic_nack(requeue=True).
C2_InvalidQuarantinedNeverRequeued ==
    \A c \in Consumers :
        (Handled(c) /\ InvalidMessage(c)) =>
            /\ CallsIn(c, ExecuteCalls) = {}
            /\ Cardinality(CallsIn(c, PublishCalls)) = 1
            /\ Cardinality(CallsIn(c, DlqPublishCalls)) = 1
            /\ published[DLQ_NAME] # <<>>
            /\ published[DLQ_NAME][Len(published[DLQ_NAME])].delivery_mode = 2
            /\ Cardinality(CallsIn(c, IncValidationFailed)) = 1
            /\ Cardinality(CallsIn(c, NackNoRequeueCalls)) = 1
            /\ CallsIn(c, NackRequeueCalls) = {}
            /\ CallsIn(c, AckCalls) = {}

\* ------------------------------------------------------------------- C3
\* The persistence stage of c's delivery raised: a store call failed, or the
\* parameters of the upsert could not be built after the cursor was opened.
PersistenceRaised(c) ==
    \/ CallsIn(c, {Call(op, "", FALSE) : op \in {"connect", "cursor", "commit", "close"}}
                   \cup {Call("execute", stmt, FALSE) : stmt \in {"upsert", "update"}}
                   \cup {Call("close", "cursor", FALSE)}) # {}
    \/ /\ Call("cursor", "", TRUE) \in {calls[c][i] : i \in DOMAIN calls[c]}
       /\ ~(UpsertKeys \subseteq DOMAIN JobData(c))

\* C3: a handled delivery whose persistence stage raised has exactly one
\* resolution call, a basic_nack(requeue=True), one JOBS_FAILED increment, and
\* no publish at all (no completion event, no dead-letter record).
C3_PersistenceFailureRequeued ==
    \A c \in Consumers :
        (Handled(c) /\ PersistenceRaised(c)) =>
            /\ Cardinality(CallsIn(c, ResolutionCalls)) = 1
            /\ Cardinality(CallsIn(c, NackRequeueCalls)) = 1
            /\ Cardinality(CallsIn(c, {Call("inc", "JOBS_FAILED", TRUE)})) = 1
            /\ CallsIn(c, PublishCalls) = {}

\* Reached: a delivery whose second commit raised was nacked with requeue and
\* is back at the head of the queue, marked redelivered.
C3_Witness ==
    \E c \in Consumers :
        /\ pc[c] = "idle"
        /\ Len(calls[c]) > 2
        /\ calls[c][Len(calls[c]) - 2] = Call("commit", "", FALSE)
        /\ Cardinality(CallsIn(c, ExecuteCalls)) = 2
        /\ calls[c][Len(calls[c])] = Call("basic_nack", "requeue=True", TRUE)
        /\ inbound # <<>> /\ Head(inbound).redelivered

\* ------------------------------------------------------------------- C4
\* C4: a handled delivery whose body json.loads could not decode made no store
\* write and no publish, counted one validation failure, and has exactly one
\* resolution call, a basic_nack(requeue=False).
C4_UnparseableRejectedNoRequeue ==
    \A c \in Consumers :
        (Handled(c) /\ json_loads(delivery[c].body).exc # "none") =>
            /\ CallsIn(c, ExecuteCalls) = {}
            /\ CallsIn(c, PublishCalls) = {}
            /\ Cardinality(CallsIn(c, IncValidationFailed)) = 1
            /\ Cardinality(CallsIn(c, ResolutionCalls)) = 1
            /\ Cardinality(CallsIn(c, NackNoRequeueCalls)) = 1

\* ------------------------------------------------------------------- C5
\* C5: a handled delivery of a well-formed job.created envelope during which no
\* call failed made exactly two store writes, the upsert then the update,
\* published exactly once, to jobs.completed, and has exactly one resolution
\* call, a basic_ack.
C5_SuccessFlow ==
    \A c \in Consumers :
        (Handled(c) /\ WellFormedJobCreated(c) /\ FailedCalls(c) = {}) =>
            /\ Cardinality(CallsIn(c, ExecuteCalls)) = 2
            /\ \E i, j \in DOMAIN calls[c] :
                  /\ i < j
                  /\ calls[c][i] = Call("execute", "upsert", TRUE)
                  /\ calls[c][j] = Call("execute", "update", TRUE)
            /\ Cardinality(CallsIn(c, PublishCalls)) = 1
            /\ Cardinality(CallsIn(c, CompletionPublishCalls)) = 1
            /\ Cardinality(CallsIn(c, AckCalls)) = 1
            /\ CallsIn(c, NackCalls) = {}

\* ------------------------------------------------------------------- C6
\* C6: in every call log a basic_ack comes after a basic_publish to
\* jobs.completed that returned, and the Completion Event of the delivery's
\* event is then on the outbound queue.
C6_AckAfterCompletionPublish ==
    \A c \in Consumers :
        \A i \in DOMAIN calls[c] :
            calls[c][i] \in AckCalls =>
                /\ \E j \in 1..(i - 1) :
                      calls[c][j] = Call("basic_publish", OUT_QUEUE, TRUE)
                /\ \E k \in DOMAIN published[OUT_QUEUE] :
                      /\ published[OUT_QUEUE][k].body.eventType = "job.completed"
                      /\ published[OUT_QUEUE][k].body.idempotencyKey =
                            Event(c).idempotencyKey

\* Reached: a delivery was acknowledged and its completion event is on the
\* outbound queue.
C6_Witness ==
    \E c \in Consumers :
        /\ Call("basic_ack", "", TRUE) \in {calls[c][i] : i \in DOMAIN calls[c]}
        /\ published[OUT_QUEUE] # <<>>

\* ------------------------------------------------------------------- C7
\* C7: a handled delivery of a valid message whose job has no payload
\* sub-field, during which no call failed, was acknowledged and never nacked,
\* and the job's row holds payload '{}' and status COMPLETED.
C7_MissingPayloadIsEmptyObject ==
    \A c \in Consumers :
        (/\ Handled(c)
         /\ WellFormedJobCreated(c)
         /\ ~Has(JobData(c), "payload")
         /\ FailedCalls(c) = {}) =>
            /\ Cardinality(CallsIn(c, AckCalls)) = 1
            /\ CallsIn(c, NackCalls) = {}
            /\ Has(store, JobData(c).id)
            /\ store[JobData(c).id].payload = "{}"
            /\ store[JobData(c).id].status = "COMPLETED"

\* ------------------------------------------------------------------- C8
\* The idempotency keys of the corpus.
IdempotencyKeys == {"idem-1", "idem-2", "idem-3", "idem-4", "idem-5"}

\* C8: for every idempotency key at most one Completion Event is on the
\* outbound queue, however often the event was delivered.
C8_AtMostOneCompletionPerEvent ==
    \A k \in IdempotencyKeys :
        Cardinality({i \in DOMAIN published[OUT_QUEUE] :
                        published[OUT_QUEUE][i].body.idempotencyKey = k}) <= 1

\* ------------------------------------------------------------------- C9
\* C9: a row whose status is COMPLETED or FAILED keeps that status in every step.
C9_TerminalStatusKept ==
    [][\A id \in DOMAIN store :
          store[id].status \in {"COMPLETED", "FAILED"} => store'[id].status = store[id].status]_vars

\* ------------------------------------------------------------------ C10
\* C10: in every state every row's status is one of PENDING, PROCESSING,
\* COMPLETED, FAILED.
C10_StoredStatusLegal ==
    \A id \in DOMAIN store : store[id].status \in VALID_STATUSES

\* ------------------------------------------------------------------ C11
\* The four legal statuses and the three legal transitions, as the contract
\* lists them.
LegalStatuses == {"PENDING", "PROCESSING", "COMPLETED", "FAILED"}
LegalPairs == {<<"PENDING", "PROCESSING">>, <<"PROCESSING", "COMPLETED">>,
               <<"PROCESSING", "FAILED">>}

\* The call made last: the machine is in the status that call left it in.
LastCall == sm_log[Len(sm_log)]

\* C11: every transition(t) recorded for a machine in a legal status s with a
\* legal target t returned True exactly for the three legal pairs and never
\* raised; right after the call the status is t for a legal pair and s otherwise.
C11_TransitionTable ==
    /\ \A i \in DOMAIN sm_log :
          (sm_log[i].op = "transition" /\ sm_log[i].args[1] \in LegalStatuses) =>
              sm_log[i].result =
                  (IF <<sm_log[i].before, sm_log[i].args[1]>> \in LegalPairs
                   THEN "True" ELSE "False")
    /\ (sm_log # <<>> /\ LastCall.op = "transition"
           /\ LastCall.args[1] \in LegalStatuses) =>
          sm_status = (IF <<LastCall.before, LastCall.args[1]>> \in LegalPairs
                       THEN LastCall.args[1] ELSE LastCall.before)

\* Reached: PROCESSING -> FAILED was applied after PENDING -> COMPLETED was refused.
C11_Witness ==
    /\ Len(sm_log) = 3
    /\ sm_log[2] = SmCall("transition", <<"COMPLETED">>, "PENDING", "False")
    /\ sm_log[3].op = "transition" /\ sm_log[3].before = "PENDING"
    /\ sm_log[3].result = "True"
    /\ sm_status = "PROCESSING"

\* ------------------------------------------------------------------ C12
\* The order PENDING < PROCESSING < {COMPLETED, FAILED}.
Rank(status) ==
    CASE status = "PENDING" -> 0
      [] status = "PROCESSING" -> 1
      [] OTHER -> 2

\* C12: in every step of an existing machine a COMPLETED or FAILED status stays
\* what it is, and the status never moves back in the order
\* PENDING, PROCESSING, {COMPLETED, FAILED}.
C12_TerminalAbsorbing ==
    [][sm_status # NoMachine =>
          /\ sm_status \in {"COMPLETED", "FAILED"} => sm_status' = sm_status
          /\ Rank(sm_status') >= Rank(sm_status)
          /\ sm_status' # NoMachine]_vars

\* Reached: a COMPLETED machine was asked to go back to PROCESSING and was then
\* sent an event.
C12_Witness ==
    /\ Len(sm_log) = 3
    /\ sm_status = "COMPLETED"
    /\ sm_log[2] = SmCall("transition", <<"PROCESSING">>, "COMPLETED", "False")
    /\ sm_log[3].op = "process_event"

\* ------------------------------------------------------------------ C13
\* The event ids of the process_event calls at the positions of S.
LoggedEventIds(S) ==
    {sm_log[i].args[1] : i \in {j \in S : sm_log[j].op = "process_event"}}

\* C13: a process_event call returned 'processed' exactly when no earlier
\* process_event call had the same event id, and 'duplicate' otherwise,
\* whatever the delivery tags and redelivered flags; processed_event_ids is
\* the set of all event ids passed so far.
C13_DuplicateByEventId ==
    /\ \A i \in DOMAIN sm_log :
          sm_log[i].op = "process_event" =>
              sm_log[i].result =
                  (IF sm_log[i].args[1] \in LoggedEventIds(1..(i - 1))
                   THEN "duplicate" ELSE "processed")
    /\ sm_status # NoMachine => sm_events = LoggedEventIds(DOMAIN sm_log)

\* Reached: the same event id came again with another delivery tag and the
\* redelivered flag set, and was a duplicate.
C13_Witness ==
    /\ Len(sm_log) = 3
    /\ sm_log[2].op = "process_event" /\ sm_log[3].op = "process_event"
    /\ sm_log[2].args = <<"evt-001", 1, FALSE>>
    /\ sm_log[3].args = <<"evt-001", 2, TRUE>>
    /\ sm_log[3].result = "duplicate"

\* ------------------------------------------------------------------ C14
\* C14: a constructor call with an initial status outside the four legal
\* statuses raised and left no machine behind, and an existing machine's status
\* is one of the four legal statuses.
C14_StatusAlwaysLegal ==
    /\ \A i \in DOMAIN sm_log :
          (sm_log[i].op = "__init__" /\ sm_log[i].args[1] \notin LegalStatuses) =>
              sm_log[i].result = "ValueError"
    /\ (sm_log # <<>> /\ LastCall.op = "__init__"
           /\ LastCall.args[1] \notin LegalStatuses) => sm_status = NoMachine
    /\ sm_status # NoMachine => sm_status \in LegalStatuses

\* Reached: construction with None failed, a machine was then constructed, and
\* a transition to an invalid status raised.
C14_Witness ==
    /\ Len(sm_log) = 3
    /\ sm_log[1] = SmCall("__init__", <<"None">>, NoMachine, "ValueError")
    /\ sm_log[2].result = "machine"
    /\ sm_log[3] = SmCall("transition", <<"INVALID_STATUS">>, sm_status, "ValueError")

\* ------------------------------------------------------------------ C15
\* An object has every field a contract requires.
Satisfies(obj, required) == \A i \in DOMAIN required : Has(obj, required[i])

\* c has validated the event of its delivery and not yet gone on.
JustValidated(c) == pc[c] \in {"dlq_publish", "extract"}

\* C15: right after validate_message, the event was accepted exactly when it
\* satisfies the envelope contract and, for a job.* eventType, its payload
\* satisfies the job contract; after an envelope failure the job contract was
\* not consulted and the diagnostic is the envelope one; for an eventType
\* outside job.* the job contract was not consulted.
C15_TwoStageValidation ==
    \A c \in Consumers :
        JustValidated(c) =>
            LET e == Event(c)
                envelopeOk == Satisfies(e, EnvelopeRequired)
                jobEvent == Has(e, "eventType") /\ StartsWithJob(e.eventType)
                jobOk == Has(e, "payload") /\ Satisfies(e.payload, JobRequired)
            IN /\ (pc[c] = "extract") <=> (envelopeOk /\ (jobEvent => jobOk))
               /\ validate_message(e).ok <=> (pc[c] = "extract")
               /\ ~envelopeOk =>
                     /\ "job" \notin validated[c]
                     /\ validate_message(e).stage = "Envelope validation failed"
               /\ (envelopeOk /\ ~jobEvent) => "job" \notin validated[c]
               /\ (envelopeOk /\ jobEvent) => "job" \in validated[c]

\* Reached: a valid envelope outside job.*, whose payload is no job, was
\* accepted without the job contract being consulted.
C15_Witness ==
    \E c \in Consumers :
        /\ pc[c] = "extract"
        /\ Event(c).eventType = "user.created"
        /\ ~Satisfies(Event(c).payload, JobRequired)
        /\ validated[c] = {"event-envelope"}

\* ------------------------------------------------------------------ C16
\* The dead-letter records whose diagnostic is a missing contract document.
SchemaNotFoundRecords ==
    {i \in DOMAIN published[DLQ_NAME] :
        published[DLQ_NAME][i].body.validation_error.error
            \in {SchemaNotFound(name) : name \in SchemaFiles}}

\* C16: with a contract document missing, no consumer gets past the setup of
\* main() into consuming, and no dead-letter record reports the missing document.
C16_MissingSchemaFatalAtStartup ==
    schemas_dir # SchemaFiles =>
        /\ \A c \in Consumers : ~Consuming(c)
        /\ SchemaNotFoundRecords = {}

\* ------------------------------------------------------------------ C17
\* The envelope fields other than eventType, eventId, occurredAt and producer.
CarriedFields == {"contractVersion", "correlationId", "idempotencyKey", "payload"}

\* The completion event published last.
LastCompletion == published[OUT_QUEUE][Len(published[OUT_QUEUE])].body

\* C17: right after the completion publish of a delivery, the event published
\* has the fields of the triggering envelope, with correlationId,
\* idempotencyKey, contractVersion, payload and the producer's instanceId and
\* version unchanged, eventType job.completed, producer.service processor,
\* and an eventId that differs from the triggering one and from the eventId of
\* every completion event published before.
C17_CompletionEventFrame ==
    \A c \in Consumers :
        pc[c] = "ack" =>
            /\ published[OUT_QUEUE] # <<>>
            /\ DOMAIN LastCompletion = DOMAIN Event(c)
            /\ \A f \in CarriedFields : LastCompletion[f] = Event(c)[f]
            /\ LastCompletion.eventType = "job.completed"
            /\ LastCompletion.producer = [Event(c).producer EXCEPT !.service = "processor"]
            /\ LastCompletion.eventId # Event(c).eventId
            /\ \A i \in 1..(Len(published[OUT_QUEUE]) - 1) :
                  published[OUT_QUEUE][i].body.eventId # LastCompletion.eventId

\* Reached: a second completion event was published, for a job.created
\* envelope produced by the gateway.
C17_Witness ==
    \E c \in Consumers :
        /\ pc[c] = "ack"
        /\ Len(published[OUT_QUEUE]) = 2
        /\ Event(c).producer.service = "gateway"
        /\ Event(c).eventType = "job.created"

\* ------------------------------------------------------------------ C18
\* The correlation id of a decoded body: its correlationId when it has one,
\* 'unknown' otherwise.
ExpectedCorrelationId(value) ==
    IF value.isdict /\ Has(value.obj, "correlationId")
    THEN value.obj.correlationId ELSE "unknown"

\* C18: for every handled delivery whose body decoded to a JSON value,
\* get_correlation_id did not raise on that value, the handler's
\* correlation_id is the message's correlationId or 'unknown', and a
\* dead-letter record published for the delivery carries the same value.
C18_CorrelationIdNeverFails ==
    \A c \in Consumers :
        (Handled(c) /\ json_loads(delivery[c].body).exc = "none") =>
            LET value == json_loads(delivery[c].body).value
            IN /\ get_correlation_id(value).exc = "none"
               /\ correlation_id[c] = ExpectedCorrelationId(value)
               /\ Call("basic_publish", DLQ_NAME, TRUE)
                      \in {calls[c][i] : i \in DOMAIN calls[c]} =>
                     published[DLQ_NAME][Len(published[DLQ_NAME])].body.correlation_id
                        = ExpectedCorrelationId(value)

\* ------------------------------------------------------------------ C19
\* C19: no consumer is ever stopped by an exception leaving process_job.
C19_NoErrorEscapes ==
    \A c \in Consumers : pc[c] # "crashed"

\* ------------------------------------------------------------------ C20
\* C20: a consumer holds at most one unresolved delivery; and whenever a
\* delivery is waiting for its callback, the delivery handled before it has
\* been resolved by an ack or nack that returned and has no store write or
\* publish left to make (the callback has returned or is at its metrics);
\* before any callback has run, the delivery waits for start_consuming.
C20_OneUnackedPerConsumer ==
    \A c \in Consumers :
        /\ Len(unacked[c]) <= 1
        /\ Buffer(c) # <<>> =>
              /\ pc[c] \in {"start_consuming", "idle", "metrics"}
              /\ delivery[c] # NoDelivery => CallsIn(c, {call \in ResolutionCalls : call.ok}) # {}

\* Reached: a consumer is writing the row of its second delivery while a
\* message waits in jobs.created, not pushed to it.
C20_Witness ==
    \E c \in Consumers :
        /\ pc[c] = "commit1"
        /\ delivery[c].tag = 2
        /\ Len(unacked[c]) = 1
        /\ Buffer(c) = <<>>
        /\ inbound # <<>>

\* ------------------------------------------------------------------ C21
\* C21: the commit of an upsert inserts the row of a job id the store has not
\* seen, and for a job id it has seen replaces status, payload and updated
\* timestamp by those of the delivery and leaves type and created timestamp as
\* they were; no other row changes.
C21_UpsertInsertsOrUpdates ==
    [][\A c \in Consumers :
          (pc[c] = "commit1" /\ pc'[c] = "update") =>
              LET id == JobData(c).id
                  new == Row(UpsertStmt(c))
              IN /\ DOMAIN store' = DOMAIN store \cup {id}
                 /\ \A other \in DOMAIN store \ {id} : store'[other] = store[other]
                 /\ store'[id] =
                       (IF id \in DOMAIN store
                        THEN [store[id] EXCEPT !.status = new.status,
                                               !.payload = new.payload,
                                               !.updated_at = "NOW()"]
                        ELSE new)]_vars

\* ------------------------------------------------------------------ C22
\* C22: a handled attempt on a valid job.created message is never quarantined
\* or dropped:
\* it ends in an ack or in a nack with requeue that puts the message back in
\* the queue; and an attempt during which the store and the broker were
\* available (no call failed) is the one that completes it: it is acked, its
\* job is COMPLETED and its Completion Event is published.
C22_RetriedUntilCompleted ==
    \A c \in Consumers :
        (Handled(c) /\ WellFormedJobCreated(c)) =>
            /\ CallsIn(c, NackNoRequeueCalls) = {}
            /\ CallsIn(c, DlqPublishCalls) = {}
            /\ \/ Call("basic_ack", "", TRUE) \in {calls[c][i] : i \in DOMAIN calls[c]}
               \/ /\ CallsIn(c, NackRequeueCalls) # {}
                  /\ \E i \in DOMAIN inbound :
                        inbound[i] = [body |-> delivery[c].body, redelivered |-> TRUE]
            /\ FailedCalls(c) = {} =>
                  /\ Call("basic_ack", "", TRUE) \in {calls[c][i] : i \in DOMAIN calls[c]}
                  /\ Call("basic_publish", OUT_QUEUE, TRUE)
                        \in {calls[c][i] : i \in DOMAIN calls[c]}
                  /\ Has(Event(c).payload, "id")
                  /\ Has(store, Event(c).payload.id)
                  /\ store[Event(c).payload.id].status = "COMPLETED"

\* ------------------------------------------------------------------ C23
\* C23: no reader of the store (with its own connection: it observes the
\* committed rows) observes a row as the first write of the upsert leaves it
\* (status as written by the initial status write, completion write not yet
\* applied), neither while a delivery is being handled nor after a failure
\* between the two writes.
C23_NoIntermediateRowVisible ==
    \A id \in DOMAIN store : store[id].status # UpsertStatus

C25_LoadedOnce ==
    \A c \in Consumers :
        /\ validators[c] = schema_cache[c]
        /\ \A n \in SchemaFiles : reads[c][n] = (IF n \in schema_cache[c] THEN 1 ELSE 0)

\* A consumer has validated envelope and job of its second or a later delivery
\* with both documents read once.
C25_Witness ==
    \E c \in Consumers :
        /\ delivery[c] # NoDelivery
        /\ delivery[c].tag >= 2
        /\ pc[c] = "extract"
        /\ validated[c] = SchemaFiles
        /\ \A n \in SchemaFiles : reads[c][n] = 1

\* ------------------------------------------------------------------ C26
\* The structural violations of the object the validator was called with, in
\* the validator's order: the fields the contract of the function called
\* requires and the object lacks.
Violations ==
    Missing(IF v_out.fn = "validate_job" THEN JobRequired ELSE EnvelopeRequired, v_obj)

\* One entry of a diagnostic: '<json-path>: <message>' for a missing field.
Entry(field) == "$: '" \o field \o "' is a required property"

\* C26: a failed validate_event_envelope or validate_job returns the first
\* min(n, 3) of the n violations, in the validator's order, each rendered as
\* '<json-path>: <message>' and joined by '; '; it fails iff n > 0.
C26_DiagnosticFirstThree ==
    v_out # NoResult =>
        LET v == Violations
            n == Len(v)
            r == v_out.result
        IN /\ r.ok <=> n = 0
           /\ n = 1 => r.error = Entry(v[1])
           /\ n = 2 => r.error = Entry(v[1]) \o "; " \o Entry(v[2])
           /\ n >= 3 => r.error = Entry(v[1]) \o "; " \o Entry(v[2]) \o "; " \o Entry(v[3])

\* A validator function has been called with an object that has more than
\* three violations.
C26_Witness == v_out # NoResult /\ Len(Violations) > 3

\* ------------------------------------------------------------------ C27
\* C27: a consumer consumes only after the VERSION file (the one holding a
\* SemVer among the files considered) has loaded, the jobs
\* table has been initialised, the three queues have been declared and its
\* prefetch has been set to 1; with a missing or non-SemVer VERSION file the
\* process ends before any of this: no table, no queue, no prefetch, no
\* delivery.
C27_SetupBeforeConsuming ==
    /\ \A c \in Consumers :
          Consuming(c) =>
              /\ version_file = VersionFile
              /\ table
              /\ {"jobs.created", "jobs.completed", "jobs.failed.validation"} \subseteq declared
              /\ qos[c] = 1
    /\ version_file # VersionFile =>
          /\ \A c \in Consumers : pc[c] \in {"off", "import", "exited"} /\ qos[c] = 0
          /\ ~table
          /\ declared = {}
          /\ deliveries = 0

\* A consumer that went through the whole of main() has taken a delivery.
C27_Witness ==
    \E c \in Consumers : Consuming(c) /\ delivery[c] # NoDelivery /\ pc[c] = "start"

\* ------------------------------------------------------------------ C28
\* The status of the row of the job of c's delivery, as committed.
StoredStatus(c) ==
    IF Has(store, JobData(c).id) THEN store[JobData(c).id].status ELSE "absent"

\* C28: in every call log the completion publish comes after two successful
\* commits, the first after the initial-status write and the second after the
\* COMPLETED write, and the ack after a completion publish that returned; when
\* the consumer publishes the completion event and when it has acknowledged,
\* the committed status of the job it handles is COMPLETED.
C28_CommitCommitPublishAck ==
    \A c \in Consumers :
        /\ \A i \in DOMAIN calls[c] :
              /\ calls[c][i] \in CompletionPublishCalls =>
                    \E u, k1, w, k2 \in 1..(i - 1) :
                        /\ u < k1 /\ k1 < w /\ w < k2
                        /\ calls[c][u] = Call("execute", "upsert", TRUE)
                        /\ calls[c][k1] = Call("commit", "", TRUE)
                        /\ calls[c][w] = Call("execute", "update", TRUE)
                        /\ calls[c][k2] = Call("commit", "", TRUE)
              /\ calls[c][i] \in AckCalls =>
                    \E p \in 1..(i - 1) :
                        calls[c][p] = Call("basic_publish", "jobs.completed", TRUE)
        /\ pc[c] \in {"publish", "ack"} => StoredStatus(c) = "COMPLETED"
        /\ CallsIn(c, {Call("basic_ack", "", TRUE)}) # {} => StoredStatus(c) = "COMPLETED"

\* A delivery has just been acknowledged after its completion publish.
C28_Witness ==
    \E c \in Consumers :
        /\ pc[c] = "metrics"
        /\ CallsIn(c, {Call("basic_ack", "", TRUE)}) # {}
        /\ CallsIn(c, {Call("basic_publish", "jobs.completed", TRUE)}) # {}

\* ------------------------------------------------------------------ C29
\* How often c's call log for its delivery increments the named counter.
Incs(c, counter) == Cardinality(CallsIn(c, {Call("inc", counter, TRUE)}))

\* c's call log holds a call of the set that returned.
Did(c, S) == \E i \in CallsIn(c, S) : calls[c][i].ok

\* C29: a delivery whose callback has returned incremented JOBS_PROCESSED once
\* and exactly one of JOBS_COMPLETED, JOBS_FAILED, JOBS_VALIDATION_FAILED:
\* JOBS_COMPLETED iff it was acked, JOBS_FAILED iff it was nacked with requeue,
\* JOBS_VALIDATION_FAILED iff it was nacked without requeue; and whenever no
\* callback is running, processed = completed + failed + validation_failed.
C29_CountersPartition ==
    /\ \A c \in Consumers :
          (Handled(c) /\ pc[c] = "idle") =>
              /\ Incs(c, "JOBS_PROCESSED") = 1
              /\ Incs(c, "JOBS_COMPLETED") + Incs(c, "JOBS_FAILED")
                    + Incs(c, "JOBS_VALIDATION_FAILED") = 1
              /\ Incs(c, "JOBS_COMPLETED") = 1 <=> Did(c, AckCalls)
              /\ Incs(c, "JOBS_FAILED") = 1 <=> Did(c, NackRequeueCalls)
              /\ Incs(c, "JOBS_VALIDATION_FAILED") = 1 <=> Did(c, NackNoRequeueCalls)
    /\ (\A c \in Consumers : Consuming(c) => pc[c] = "idle") =>
          counters.processed
              = counters.completed + counters.failed + counters.validation_failed

\* ------------------------------------------------------------------ C30
\* The job id a message body carries, "none" if it carries none.
JobIdOf(body) ==
    IF /\ body.raw = "json"
       /\ body.value.isdict
       /\ Has(body.value.obj, "payload")
       /\ Has(body.value.obj.payload, "id")
    THEN body.value.obj.payload.id
    ELSE "none"

\* A delivery carrying the job id has been pushed to a consumer and is neither
\* acked nor nacked yet.
Unresolved(id) ==
    \E c \in Consumers : \E i \in DOMAIN unacked[c] : JobIdOf(unacked[c][i].body) = id

\* A message carrying the job id is back in the queue after a delivery that was
\* not positively acknowledged.
AwaitingRedelivery(id) ==
    \E i \in DOMAIN inbound : inbound[i].redelivered /\ JobIdOf(inbound[i].body) = id

\* The consumers whose current call log ends a delivery of the job id with a
\* positive acknowledgement.
AckedBy(id) ==
    {c \in Consumers : /\ delivery[c] # NoDelivery
                        /\ JobIdOf(delivery[c].body) = id
                        /\ CallsIn(c, {Call("basic_ack", "", TRUE)}) # {}}

\* C30: with two consumer instances, whenever no delivery carrying a job id is
\* unresolved and none awaits redelivery (every delivery made for the id so
\* far was acknowledged or has been superseded by an acknowledged redelivery),
\* the row of that id, the one row the store keeps per id, has status
\* COMPLETED, and it exists if a completion event for the id was published.
C30_ConcurrentSameJobCompleted ==
    \A id \in {"j1", "j2"} :
        (~Unresolved(id) /\ ~AwaitingRedelivery(id)) =>
            /\ Has(store, id) => store[id].status = "COMPLETED"
            /\ ((\E k \in DOMAIN published[OUT_QUEUE] :
                     JobIdOf(JsonBody(Obj(published[OUT_QUEUE][k].body))) = id)
                \/ AckedBy(id) # {}) => Has(store, id)

\* Both instances have acknowledged a delivery of job j1 and none is pending.
C30_Witness ==
    /\ AckedBy("j1") = Consumers
    /\ ~Unresolved("j1")
    /\ ~AwaitingRedelivery("j1")
====
